---- MODULE Spec2Model ----
(***************************************************************************)
(* Session layer of the cn-stratum pool client: the write end              *)
(* (ClientWriter / PoolClientWriter behind a Mutex), the read end          *)
(* (PoolClientReader), the login handshake (connection::connect) and the   *)
(* steady-state loop (PoolClient::run).                                    *)
(*                                                                         *)
(* The transport is modelled at byte granularity.  The server writes       *)
(* lines of LineLen bytes (the last one the newline); byte i of line k is  *)
(* the token <<k, i>>.  The client writes messages of two tokens: the JSON *)
(* object and the line terminator.                                         *)
(*                                                                         *)
(* A u32 is a pair <<hi, lo>> of 16-bit limbs, so that the counter keeps   *)
(* its 32-bit width.                                                       *)
(*                                                                         *)
(* Spec is the session.  SpecAlloc is the id counter on its own, started   *)
(* near the wrap.  SpecTarget and SpecDecode apply the decoders of         *)
(* message.rs (deserialize_target, PoolEvent) to each text of a bounded    *)
(* set.                                                                    *)
(***************************************************************************)
EXTENDS Integers, Sequences, FiniteSets, TLC

\* ------------------------------------------------------------------ bounds
MaxLines == 3        \* lines the server writes on one connection
LineLen == 3         \* bytes of one server line, newline included
MaxIdle == 2         \* read timeouts on one connection
NumCallers == 1      \* threads holding a write handle besides the run loop
MaxCallerSends == 1  \* commands each such thread sends
MaxAllocs == 6       \* ids drawn in the counter specification
MaxPending == 1      \* lines written by the server and not yet read
MaxHandlerSends == 1 \* commands the handler's callbacks send on one connection

Limb == 2 ^ 16

Main == 0
Callers == 1 .. NumCallers
Handler == NumCallers + 1
Threads == {Main} \cup Callers \cup {Handler}
NoThread == 0 - 1

VARIABLES
    pending,     \* server -> client bytes not yet consumed: lines [ev, n, off]
    nwritten,    \* lines the server has written
    closed,      \* the server has closed its end
    timeoutCfg,  \* connect()'s keepalive argument is Some(duration)
    buf,         \* PoolClientReader.buf
    next_id,     \* ClientWriter.next_id
    wbuf,        \* ClientWriter.stream: bytes buffered in the BufWriter
    wire,        \* client -> server bytes that reached the socket
    wbroken,     \* a socket write has failed
    worker_id,   \* PoolClientWriter.worker_id
    lockHolder,  \* the thread holding the Mutex guard
    poisoned,    \* the Mutex is poisoned
    pc,          \* position of each thread
    targs,       \* the call a thread makes on the write handle, with its arguments
    tcmd,        \* the command a thread is sending
    tid,         \* the id alloc_id gave a thread
    sendRes,     \* the result of a thread's last send
    csent,       \* commands a caller thread has sent
    event,       \* run(): the event just read
    connRes,     \* result of connect()
    runRes,      \* result of run()
    first_job,   \* the Job connect() returned
    lastRead,    \* last read(): transport outcome and result
    nLineReads,  \* reads that handed a line to the decoder
    nIdle,       \* reads that timed out
    nIgnored,    \* job notifications ignored by the handshake
    calls,       \* handler callbacks invoked, in order
    nIdleRun,    \* reads of the run loop that returned no event
    nKaRun,      \* keepalives the run loop has sent
    ids,         \* ids allocated, in order
    id0,         \* the counter's value when the specification starts
    text,        \* the text handed to a decoder
    decoded      \* what the decoder made of it

vars == << pending, nwritten, closed, timeoutCfg, buf, next_id, wbuf, wire, wbroken,
           worker_id, lockHolder, poisoned, pc, targs, tcmd, tid, sendRes, csent, event,
           connRes, runRes, first_job, lastRead, nLineReads, nIdle, nIgnored, calls,
           nIdleRun, nKaRun, ids, id0, text, decoded >>

envVars == << pending, nwritten, closed, timeoutCfg >>
readerVars == << buf, lastRead, nLineReads, nIdle >>
writerVars == << next_id, wbuf, wire, wbroken, ids >>
lockVars == << lockHolder, poisoned >>
sendVars == << targs, tcmd, tid, sendRes, csent >>
loginVars == << connRes, first_job, worker_id, nIgnored >>
runVars == << event, runRes, calls, nIdleRun, nKaRun >>
decodeVars == << text, decoded >>

\* ------------------------------------------------------------ wire model
\* WorkerId, Job and ErrorReply of the line k that carries them.
WorkerOf(k) == k
\* Job.algo is an Option<String>: << >> is None, << a >> is Some(a).
AlgoOf(k) == IF k % 2 = 0 THEN << >> ELSE << "cn/1" >>
JobOf(k) == [job_id |-> k, algo |-> AlgoOf(k)]
ErrorOf(k) == k
NoWorker == 0
NoJob == [job_id |-> 0, algo |-> << >>]

\* RequestIds a server puts in a reply.
ReplyIds == { <<0, 0>>, <<0, 1>> }

\* What a line holds.  A PoolEvent, flat: type "job" is ClientCommand::Job,
\* type "reply" is PoolReply {id, error, result}.  Type "unknown" is a JSON
\* object that has the shape of no PoolEvent (another method, an id that is no
\* u32, a result of neither shape).  Type "garbage" is text that is no JSON
\* object.
NullEv == [type |-> "null", id |-> <<0, 0>>, err |-> FALSE, res |-> "none", k |-> 0]
JobEv(k) == [type |-> "job", id |-> <<0, 0>>, err |-> FALSE, res |-> "none", k |-> k]
GarbageEv(k) == [type |-> "garbage", id |-> <<0, 0>>, err |-> FALSE, res |-> "none", k |-> k]
UnknownEv(k) == [type |-> "unknown", id |-> <<0, 0>>, err |-> FALSE, res |-> "none", k |-> k]
ReplyEvs(k) == [type : {"reply"}, id : ReplyIds, err : BOOLEAN,
                res : {"none", "status", "job"}, k : {k}]
LineEvs(k) == {JobEv(k), GarbageEv(k), UnknownEv(k)} \cup ReplyEvs(k)

\* PoolCommand.  Login's Credentials are not modelled.
Login == [method |-> "login", wid |-> NoWorker, job_id |-> 0, nonce |-> 0, result |-> 0,
          algo |-> ""]
NoCmd == [method |-> "none", wid |-> NoWorker, job_id |-> 0, nonce |-> 0, result |-> 0,
          algo |-> ""]

\* keepalive() sending the id of no worker.
KeepAlived_NoWorker(w) ==
    [method |-> "keepalived", wid |-> NoWorker, job_id |-> 0, nonce |-> 0, result |-> 0,
     algo |-> ""]

\* PoolCommand::KeepAlived { id: w }
KeepAlived(w) ==
    [method |-> "keepalived", wid |-> w, job_id |-> 0, nonce |-> 0, result |-> 0,
     algo |-> ""]

\* PoolCommand::Submit(Share { worker_id: w, job_id: job.id(), nonce, result,
\* algo: job.algo() or the empty string })
Submit(w, job, nonce, result) ==
    [method |-> "submit", wid |-> w, job_id |-> job.job_id, nonce |-> nonce,
     result |-> result, algo |-> IF job.algo = << >> THEN "" ELSE job.algo[1]]

\* A call on the write handle: keepalive(), or submit(job, nonce, result).
NoCall == [op |-> "none", job |-> NoJob, nonce |-> 0, result |-> 0]
KeepaliveCall == [op |-> "keepalive", job |-> NoJob, nonce |-> 0, result |-> 0]
SubmitCall(job, nonce, result) ==
    [op |-> "submit", job |-> job, nonce |-> nonce, result |-> result]

\* Nonces and hashes a miner submits.
Nonces == {1, 2}
Results == {3}

\* Bytes of a request: serde_json::to_writer's object, then writeln!'s "\n".
Json(id, cmd) == [b |-> "json", id |-> id, cmd |-> cmd]
Newline == [b |-> "nl", id |-> <<0, 0>>, cmd |-> NoCmd]

\* ---------------------------------------------------------------- writer
\* A counter that starts at 0.
ClientWriter_new_Zero == <<0, 0>>

\* ClientWriter::new: next_id is RequestId(1).
ClientWriter_new == <<0, 1>>

\* u32::saturating_add(1): the counter stops at the maximum instead of wrapping.
saturating_add_1(id) ==
    IF id = << Limb - 1, Limb - 1 >> THEN id
    ELSE IF id[2] + 1 >= Limb THEN << id[1] + 1, 0 >> ELSE << id[1], id[2] + 1 >>

\* u32::wrapping_add(1)
wrapping_add_1(id) ==
    LET lo == (id[2] + 1) % Limb
        hi == IF id[2] + 1 >= Limb THEN (id[1] + 1) % Limb ELSE id[1]
    IN << hi, lo >>

\* BufWriter::flush: the outcomes of writing the buffer b to the socket.
\* A failed write may have put a prefix of b on the wire; the rest stays
\* buffered.  A socket whose write failed keeps failing.
flush(b) ==
    IF wbroken
    THEN { [ok |-> FALSE, n |-> 0] }
    ELSE { [ok |-> TRUE, n |-> Len(b)] } \cup { [ok |-> FALSE, n |-> j] : j \in 0 .. Len(b) }

\* ---------------------------------------------------------------- reader
LineBytes(k) == [i \in 1 .. LineLen |-> << k, i >>]
JsonBytes(k) == [i \in 1 .. (LineLen - 1) |-> << k, i >>]
Bytes(k, from, to) == [i \in 1 .. (to - from + 1) |-> << k, from + i - 1 >>]

OkNone == [tag |-> "None", ev |-> NullEv, err |-> "none"]
OkSome(ev) == [tag |-> "Some", ev |-> ev, err |-> "none"]
Err(e) == [tag |-> "Err", ev |-> NullEv, err |-> e]

\* BufRead::read_line on the socket: the transport outcomes of one call.
\* io is Ok or the io::ErrorKind; bytes were appended to buf and consumed.
read_line ==
    LET ok ==
            IF pending = << >>
            THEN IF closed
                 THEN { [io |-> "Ok", bytes |-> << >>, ev |-> NullEv, pend |-> pending] }
                 ELSE { }
            ELSE LET h == Head(pending)
                 IN { [io |-> "Ok", bytes |-> Bytes(h.ev.k, h.off + 1, h.n), ev |-> h.ev,
                       pend |-> Tail(pending)] }
        maxj ==
            IF pending = << >> THEN 0
            ELSE LET h == Head(pending)
                 IN IF h.n = LineLen THEN h.n - h.off - 1 ELSE h.n - h.off
        timeout ==
            IF timeoutCfg /\ nIdle < MaxIdle
            THEN { [io |-> kind,
                    bytes |-> IF j = 0 THEN << >>
                              ELSE Bytes(Head(pending).ev.k, Head(pending).off + 1,
                                         Head(pending).off + j),
                    ev |-> NullEv,
                    pend |-> IF j = 0 THEN pending
                             ELSE << [Head(pending) EXCEPT !.off = @ + j] >> \o Tail(pending)]
                   : j \in 0 .. maxj, kind \in {"WouldBlock", "TimedOut"} }
            ELSE { }
        other == { [io |-> "Other", bytes |-> << >>, ev |-> NullEv, pend |-> pending] }
    IN ok \cup timeout \cup other

\* self.buf.clear()
buf_clear(b) == << >>

\* serde_json::from_str::<JsonMessage<Option<PoolEvent<RequestId>>>> on what
\* read_line left in buf, and msg.body; ev is what the server put in the line
\* the bytes come from.  Text that is not the whole JSON object (with or
\* without its newline) is a syntax error.  JsonMessage.body is a flattened
\* Option: when the object's fields match no PoolEvent variant the body is None.
from_str(b, ev) ==
    IF b \in {LineBytes(ev.k), JsonBytes(ev.k)}
    THEN IF ev.type \in {"job", "reply"} THEN OkSome(ev)
         ELSE IF ev.type = "unknown" THEN OkNone
         ELSE Err("MessageError")
    ELSE Err("MessageError")

\* PoolClientReader::read, given read_line's outcome r and buf after it.
read(r, b) ==
    IF r.io # "Ok"
    THEN IF r.io \in {"WouldBlock", "TimedOut"} THEN OkNone ELSE Err("IoError")
    ELSE IF b = << >> THEN Err("Disconnected") ELSE from_str(b, r.ev)

\* The reader's variables after one read() with transport outcome r.
ReaderStep(r) ==
    LET b == buf_clear(buf) \o r.bytes
        res == read(r, b)
    IN /\ buf' = b
       /\ pending' = r.pend
       /\ lastRead' = [io |-> r.io, n |-> Len(r.bytes), res |-> res, buf |-> b]
       /\ nLineReads' = IF r.io = "Ok" /\ b # << >> THEN nLineReads + 1 ELSE nLineReads
       /\ nIdle' = IF r.io \in {"WouldBlock", "TimedOut"} THEN nIdle + 1 ELSE nIdle

NoRead == [io |-> "none", n |-> 0, res |-> OkNone, buf |-> << >>]
NoRes == [tag |-> "none", kind |-> "none", k |-> 0]
OkRes == [tag |-> "Ok", kind |-> "none", k |-> 0]
ErrRes(kind, k) == [tag |-> "Err", kind |-> kind, k |-> k]
PanicRes == [tag |-> "panic", kind |-> "none", k |-> 0]

\* Result<RequestId> of a send
NoSend == [tag |-> "none", id |-> <<0, 0>>]
SendOk(id) == [tag |-> "Ok", id |-> id]
SendErr == [tag |-> "Err", id |-> <<0, 0>>]

\* ------------------------------------------------------------------ Init
Init ==
    /\ pending = << >>
    /\ nwritten = 0
    /\ closed = FALSE
    /\ timeoutCfg \in BOOLEAN
    /\ buf = << >>
    /\ next_id = ClientWriter_new
    /\ wbuf = << >>
    /\ wire = << >>
    /\ wbroken = FALSE
    /\ worker_id = NoWorker
    /\ lockHolder = NoThread
    /\ poisoned = FALSE
    /\ pc = [t \in Threads |-> IF t = Main THEN "start" ELSE "idle"]
    /\ targs = [t \in Threads |-> NoCall]
    /\ tcmd = [t \in Threads |-> NoCmd]
    /\ tid = [t \in Threads |-> <<0, 0>>]
    /\ sendRes = [t \in Threads |-> NoSend]
    /\ csent = [t \in Threads |-> 0]
    /\ event = NullEv
    /\ connRes = NoRes
    /\ runRes = NoRes
    /\ first_job = NoJob
    /\ lastRead = NoRead
    /\ nLineReads = 0
    /\ nIdle = 0
    /\ nIgnored = 0
    /\ calls = << >>
    /\ nIdleRun = 0
    /\ nKaRun = 0
    /\ ids = << >>
    /\ id0 = ClientWriter_new
    /\ text = << >>
    /\ decoded = << >>


\* ----------------------------------------------------------- environment
\* The server writes one more line.
ServerWrite ==
    /\ pc[Main] \notin {"start", "done"}
    /\ ~closed
    /\ nwritten < MaxLines
    /\ Len(pending) < MaxPending
    /\ \E ev \in LineEvs(nwritten + 1) :
          pending' = Append(pending, [ev |-> ev, n |-> LineLen, off |-> 0])
    /\ nwritten' = nwritten + 1
    /\ UNCHANGED << closed, timeoutCfg, readerVars, writerVars, lockVars, pc, sendVars,
                    loginVars, runVars, id0, decodeVars >>

\* The server closes its end, after n bytes of an unfinished line: part of a
\* JSON text, or all of it without the newline.
ServerClose ==
    /\ pc[Main] \notin {"start", "done"}
    /\ ~closed
    /\ closed' = TRUE
    /\ \E n \in 0 .. (LineLen - 1) :
          IF n > 0 /\ nwritten < MaxLines /\ Len(pending) < MaxPending
          THEN /\ \E ev \in (IF n = LineLen - 1 THEN LineEvs(nwritten + 1)
                                               ELSE {GarbageEv(nwritten + 1)}) :
                     pending' = Append(pending, [ev |-> ev, n |-> n, off |-> 0])
               /\ nwritten' = nwritten + 1
          ELSE /\ n = 0
               /\ UNCHANGED << pending, nwritten >>
    /\ UNCHANGED << timeoutCfg, readerVars, writerVars, lockVars, pc, sendVars,
                    loginVars, runVars, id0, decodeVars >>

\* ---------------------------------------------------------------- connect
\* TcpStream::connect, try_clone, set_nodelay: each may fail with an io::Error.
ConnectOpen ==
    /\ pc[Main] = "start"
    /\ \E ok \in BOOLEAN :
          IF ok
          THEN /\ pc' = [pc EXCEPT ![Main] = "login_send"]
               /\ UNCHANGED connRes
          ELSE /\ pc' = [pc EXCEPT ![Main] = "done"]
               /\ connRes' = ErrRes("IoError", 0)
    /\ UNCHANGED << envVars, readerVars, writerVars, lockVars, sendVars, first_job,
                    worker_id, nIgnored, runVars, id0, decodeVars >>

\* ClientWriter::new, writer.send(Login(..))?, set_read_timeout(keepalive)?,
\* PoolClientReader::new.  The writer is not shared yet: the send is one step.
LoginSend ==
    /\ pc[Main] = "login_send"
    /\ LET id == next_id
           b == wbuf \o << Json(id, Login), Newline >>
       IN \E f \in flush(b), rt \in BOOLEAN :
             /\ ~f.ok => rt
             /\ next_id' = wrapping_add_1(next_id)
             /\ ids' = Append(ids, id)
             /\ wire' = wire \o SubSeq(b, 1, f.n)
             /\ wbuf' = SubSeq(b, f.n + 1, Len(b))
             /\ wbroken' = (wbroken \/ ~f.ok)
             /\ sendRes' = [sendRes EXCEPT ![Main] = IF f.ok THEN SendOk(id) ELSE SendErr]
             /\ IF f.ok /\ rt
                THEN /\ pc' = [pc EXCEPT ![Main] = "login_read"]
                     /\ UNCHANGED connRes
                ELSE /\ pc' = [pc EXCEPT ![Main] = "done"]
                     /\ connRes' = ErrRes("IoError", 0)
    /\ UNCHANGED << envVars, readerVars, lockVars, targs, tcmd, tid, csent, first_job,
                    worker_id, nIgnored, runVars, id0, decodeVars >>

\* connect()'s first arm taking any result (`Some(_)`) for the assignment.
connect_match_AnyResult(res) ==
    IF res.tag = "Err" THEN [act |-> "return", r |-> ErrRes(res.err, 0)]
    ELSE IF res.tag = "None" THEN [act |-> "return", r |-> ErrRes("LoginTimedOut", 0)]
    ELSE IF res.ev.type = "reply" /\ ~res.ev.err /\ res.ev.res \in {"job", "status"}
         THEN [act |-> "break", r |-> OkRes]
    ELSE IF res.ev.type = "reply" /\ res.ev.err
         THEN [act |-> "return", r |-> ErrRes("ErrorReply", ErrorOf(res.ev.k))]
    ELSE IF res.ev.type = "job"
         THEN [act |-> "continue", r |-> NoRes]
    ELSE [act |-> "return", r |-> ErrRes("LoginUnexpectedReply", 0)]

\* connect()'s loop reading again on None instead of ok_or_else(login_timed_out).
connect_match_IdleContinues(res) ==
    IF res.tag = "Err" THEN [act |-> "return", r |-> ErrRes(res.err, 0)]
    ELSE IF res.tag = "None" THEN [act |-> "continue", r |-> NoRes]
    ELSE IF res.ev.type = "reply" /\ ~res.ev.err /\ res.ev.res = "job"
         THEN [act |-> "break", r |-> OkRes]
    ELSE IF res.ev.type = "reply" /\ res.ev.err
         THEN [act |-> "return", r |-> ErrRes("ErrorReply", ErrorOf(res.ev.k))]
    ELSE IF res.ev.type = "job"
         THEN [act |-> "continue", r |-> NoRes]
    ELSE [act |-> "return", r |-> ErrRes("LoginUnexpectedReply", 0)]

\* connect()'s first arm matching any error (`..` in place of `error: None`).
connect_match_ResultFirst(res) ==
    IF res.tag = "Err" THEN [act |-> "return", r |-> ErrRes(res.err, 0)]
    ELSE IF res.tag = "None" THEN [act |-> "return", r |-> ErrRes("LoginTimedOut", 0)]
    ELSE IF res.ev.type = "reply" /\ res.ev.res = "job"
         THEN [act |-> "break", r |-> OkRes]
    ELSE IF res.ev.type = "reply" /\ res.ev.err
         THEN [act |-> "return", r |-> ErrRes("ErrorReply", ErrorOf(res.ev.k))]
    ELSE IF res.ev.type = "job"
         THEN [act |-> "continue", r |-> NoRes]
    ELSE [act |-> "return", r |-> ErrRes("LoginUnexpectedReply", 0)]

\* One turn of connect()'s loop on the result of reader.read():
\* `?` on an error, ok_or_else(login_timed_out) on None, then the match.
connect_match(res) ==
    IF res.tag = "Err" THEN [act |-> "return", r |-> ErrRes(res.err, 0)]
    ELSE IF res.tag = "None" THEN [act |-> "return", r |-> ErrRes("LoginTimedOut", 0)]
    ELSE IF res.ev.type = "reply" /\ ~res.ev.err /\ res.ev.res = "job"
         THEN [act |-> "break", r |-> OkRes]
    ELSE IF res.ev.type = "reply" /\ res.ev.err
         THEN [act |-> "return", r |-> ErrRes("ErrorReply", ErrorOf(res.ev.k))]
    ELSE IF res.ev.type = "job"
         THEN [act |-> "continue", r |-> NoRes]
    ELSE [act |-> "return", r |-> ErrRes("LoginUnexpectedReply", 0)]

\* debug_assert_eq!(id, req_id) in the success arm: whether connect() goes on
\* past it.  A build with debug assertions panics on unequal ids; a build
\* without them compiles the comparison out.
debug_assert_eq(id, req_id) == IF id = req_id THEN {TRUE} ELSE {TRUE, FALSE}

\* reader.read() and the match of connect()'s loop; on break,
\* PoolClientWriter::new(writer, wid) and Ok((writer, job, reader)).
\* req_id is what the login send returned.
LoginRead ==
    /\ pc[Main] = "login_read"
    /\ \E r \in read_line :
          /\ ReaderStep(r)
          /\ LET m == connect_match(read(r, buf_clear(buf) \o r.bytes))
                 ev == r.ev
                 req_id == sendRes[Main].id
             IN \E pass \in (IF m.act = "break" THEN debug_assert_eq(ev.id, req_id)
                                                ELSE {TRUE}) :
                   /\ connRes' = IF pass THEN m.r ELSE PanicRes
                   /\ pc' = [pc EXCEPT ![Main] =
                                CASE ~pass -> "done"
                                  [] m.act = "break" -> "run_read"
                                  [] m.act = "continue" -> "login_read"
                                  [] OTHER -> "done"]
                   /\ worker_id' = IF m.act = "break" /\ pass THEN WorkerOf(ev.k)
                                                              ELSE worker_id
                   /\ first_job' = IF m.act = "break" /\ pass THEN JobOf(ev.k)
                                                              ELSE first_job
                   /\ nIgnored' = IF m.act = "continue" THEN nIgnored + 1 ELSE nIgnored
    /\ UNCHANGED << nwritten, closed, timeoutCfg, writerVars, lockVars, sendVars, runVars,
                    id0, decodeVars >>

\* -------------------------------------------------------------------- run
\* run() reading again on None without sending the keepalive.
run_iflet_NoKeepalive(res) ==
    IF res.tag = "Err" THEN "done"
    ELSE IF res.tag = "None" THEN "run_read"
    ELSE "dispatch"

\* run() logging a reader error and reading again instead of returning it.
run_iflet_ErrContinues(res) ==
    IF res.tag = "Err" THEN "run_read"
    ELSE IF res.tag = "None" THEN "lock"
    ELSE "dispatch"

\* run(): where the loop goes on the result of self.reader.read(): `?` returns
\* the error, None sends a keepalive, Some(event) goes to the match.
run_iflet(res) ==
    IF res.tag = "Err" THEN "done"
    ELSE IF res.tag = "None" THEN "lock"
    ELSE "dispatch"

\* self.reader.read()? and the if-let of run()'s loop.
RunRead ==
    /\ pc[Main] = "run_read"
    /\ \E r \in read_line :
          /\ ReaderStep(r)
          /\ LET res == read(r, buf_clear(buf) \o r.bytes)
             IN /\ pc' = [pc EXCEPT ![Main] = run_iflet(res)]
                /\ runRes' = IF res.tag = "Err" THEN ErrRes(res.err, 0) ELSE runRes
                /\ nIdleRun' = IF res.tag = "None" THEN nIdleRun + 1 ELSE nIdleRun
                /\ event' = IF res.tag = "Some" THEN res.ev ELSE event
    /\ UNCHANGED << nwritten, closed, timeoutCfg, writerVars, lockVars, sendVars, loginVars,
                    calls, nKaRun, id0, decodeVars >>

\* run()'s match with the result arms ahead of the error arm.
run_match_ResultFirst(e) ==
    IF e.type = "job" THEN "job_command"
    ELSE IF e.res = "status" THEN "status_reply"
    ELSE IF e.res = "job" THEN "job_reply"
    ELSE IF e.err THEN "error_reply"
    ELSE "none"

\* run()'s match: the MessageHandler callback an event selects.
run_match(e) ==
    IF e.type = "job" THEN "job_command"
    ELSE IF e.err THEN "error_reply"
    ELSE IF e.res = "status" THEN "status_reply"
    ELSE IF e.res = "job" THEN "job_reply"
    ELSE "none"

\* run() returning after the error_reply callback, as connect() does on an
\* error reply.
Dispatch_ErrorFatal ==
    /\ pc[Main] = "dispatch"
    /\ pc[Handler] \in {"idle", "done"}
    /\ calls' = IF run_match(event) = "none" THEN calls
                ELSE Append(calls, [cb |-> run_match(event), k |-> event.k, id |-> event.id])
    /\ event' = NullEv
    /\ pc' = [pc EXCEPT ![Main] = IF run_match(event) = "error_reply" THEN "done"
                                                                       ELSE "run_read"]
    /\ runRes' = IF run_match(event) = "error_reply" THEN ErrRes("ErrorReply", ErrorOf(event.k))
                                                     ELSE runRes
    /\ UNCHANGED << envVars, readerVars, writerVars, lockVars, sendVars, loginVars,
                    nIdleRun, nKaRun, id0, decodeVars >>

\* The match of run()'s loop, from the return of the callback it selected (of
\* the match itself for a reply with no content): the loop goes on.
Dispatch ==
    /\ pc[Main] = "dispatch"
    /\ pc[Handler] \in {"idle", "done"}
    /\ calls' = IF run_match(event) = "none" THEN calls
                ELSE Append(calls, [cb |-> run_match(event), k |-> event.k, id |-> event.id])
    /\ event' = NullEv
    /\ pc' = [pc EXCEPT ![Main] = "run_read"]
    /\ UNCHANGED << envVars, readerVars, writerVars, lockVars, sendVars, loginVars, runRes,
                    nIdleRun, nKaRun, id0, decodeVars >>

\* ------------------------------------------------- sends through the Mutex
\* The calls a holder of a write handle makes.
Calls == {KeepaliveCall} \cup { SubmitCall(first_job, n, r) : n \in Nonces, r \in Results }

\* The thread t has not used its write handle.
Unused(t) == pc[t] = "idle" /\ csent[t] = 0

\* A thread holding a write handle decides to send a command.  (Bound: on one
\* connection the commands besides the run loop's keepalives come from caller
\* threads or from callbacks, not from both.)
CallerBegin(c) ==
    /\ pc[c] = "idle"
    /\ connRes.tag = "Ok"
    /\ csent[c] < MaxCallerSends
    /\ Unused(Handler)
    /\ \E call \in Calls : targs' = [targs EXCEPT ![c] = call]
    /\ pc' = [pc EXCEPT ![c] = "lock"]
    /\ UNCHANGED << envVars, readerVars, writerVars, lockVars, tcmd, tid, sendRes, csent,
                    loginVars, runVars, id0, decodeVars >>

\* The callback the match selected, running on the run loop's thread, takes the
\* write handle to send a command.  Its steps are those of the thread Handler;
\* it returns whatever the send returns (a callback that panics is not
\* modelled).
HandlerBegin ==
    /\ pc[Main] = "dispatch"
    /\ run_match(event) # "none"
    /\ pc[Handler] = "idle"
    /\ csent[Handler] < MaxHandlerSends
    /\ \A c \in Callers : Unused(c)
    /\ \E call \in Calls : targs' = [targs EXCEPT ![Handler] = call]
    /\ pc' = [pc EXCEPT ![Handler] = "lock"]
    /\ UNCHANGED << envVars, readerVars, writerVars, lockVars, tcmd, tid, sendRes, csent,
                    loginVars, runVars, id0, decodeVars >>

\* A writer shared without the Mutex.
CanLock_NoMutex == TRUE

\* Mutex::lock blocks while another thread holds the guard.
CanLock == lockHolder = NoThread

\* writer.lock(): the guard, or Err(PoisonError) on a poisoned Mutex, which the
\* run loop unwraps.
Lock(t) ==
    /\ pc[t] = "lock"
    /\ IF poisoned
       THEN /\ pc' = [pc EXCEPT ![t] = "done"]
            /\ runRes' = IF t = Main THEN PanicRes ELSE runRes
            /\ targs' = [targs EXCEPT ![t] = NoCall]
            /\ UNCHANGED lockHolder
       ELSE /\ CanLock
            /\ lockHolder' = t
            /\ pc' = [pc EXCEPT ![t] = "alloc"]
            /\ UNCHANGED << runRes, targs >>
    /\ UNCHANGED << envVars, readerVars, writerVars, poisoned, tcmd, tid, sendRes, csent,
                    loginVars, event, calls, nIdleRun, nKaRun, id0, decodeVars >>

\* The command of a call: keepalive() and submit() build it with
\* self.worker_id.  The run loop's own call is keepalive().
CommandOf(t, call) ==
    IF t = Main \/ call.op = "keepalive" THEN KeepAlived(worker_id)
    ELSE Submit(worker_id, call.job, call.nonce, call.result)

\* keepalive() / submit() build the command; ClientWriter::send starts with
\* alloc_id().
AllocId(t) ==
    /\ pc[t] = "alloc"
    /\ tid' = [tid EXCEPT ![t] = next_id]
    /\ next_id' = wrapping_add_1(next_id)
    /\ ids' = Append(ids, next_id)
    /\ tcmd' = [tcmd EXCEPT ![t] = CommandOf(t, targs[t])]
    /\ pc' = [pc EXCEPT ![t] = "write"]
    /\ UNCHANGED << envVars, readerVars, wbuf, wire, wbroken, lockVars, targs, sendRes,
                    csent, loginVars, runVars, id0, decodeVars >>

\* serde_json::to_writer(&mut self.stream, &PoolRequest { id, command })
ToWriter(t) ==
    /\ pc[t] = "write"
    /\ wbuf' = Append(wbuf, Json(tid[t], tcmd[t]))
    /\ pc' = [pc EXCEPT ![t] = "flush"]
    /\ UNCHANGED << envVars, readerVars, next_id, wire, wbroken, ids, lockVars, sendVars,
                    loginVars, runVars, id0, decodeVars >>

\* The run loop's guard bound to a variable that lives to the end of run().
guard_kept(t) == IF t = Main THEN Main ELSE NoThread

\* The MutexGuard of `writer.lock().unwrap().keepalive()` is a temporary: it is
\* dropped at the end of the statement, also when the statement panics.
guard_dropped(t) == NoThread

\* writeln!, flush, the return of send, and the drop of the guard.  The run
\* loop unwraps the result while the guard is alive; what a caller thread does
\* with an Err is its own choice.
WritelnFlush(t) ==
    /\ pc[t] = "flush"
    /\ LET b == Append(wbuf, Newline)
       IN \E f \in flush(b), unwraps \in BOOLEAN :
             /\ (t = Main \/ f.ok) => unwraps
             /\ (t = Handler /\ ~f.ok) => ~unwraps
             /\ wire' = wire \o SubSeq(b, 1, f.n)
             /\ wbuf' = SubSeq(b, f.n + 1, Len(b))
             /\ wbroken' = (wbroken \/ ~f.ok)
             /\ sendRes' = [sendRes EXCEPT ![t] = IF f.ok THEN SendOk(tid[t]) ELSE SendErr]
             /\ lockHolder' = guard_dropped(t)
             /\ poisoned' = (poisoned \/ (~f.ok /\ unwraps))
             /\ pc' = [pc EXCEPT ![t] =
                          IF f.ok THEN (IF t = Main THEN "run_read" ELSE "idle") ELSE "done"]
             /\ runRes' = IF t = Main /\ ~f.ok THEN PanicRes ELSE runRes
    /\ nKaRun' = IF t = Main THEN nKaRun + 1 ELSE nKaRun
    /\ csent' = IF t = Main THEN csent ELSE [csent EXCEPT ![t] = @ + 1]
    /\ targs' = [targs EXCEPT ![t] = NoCall]
    /\ tcmd' = [tcmd EXCEPT ![t] = NoCmd]
    /\ tid' = [tid EXCEPT ![t] = <<0, 0>>]
    /\ UNCHANGED << envVars, readerVars, next_id, ids, loginVars, event, calls, nIdleRun,
                    id0, decodeVars >>

Next ==
    \/ ServerWrite
    \/ ServerClose
    \/ ConnectOpen
    \/ LoginSend
    \/ LoginRead
    \/ RunRead
    \/ Dispatch
    \/ \E c \in Callers : CallerBegin(c)
    \/ HandlerBegin
    \/ \E t \in Threads : Lock(t)
    \/ \E t \in Threads : AllocId(t)
    \/ \E t \in Threads : ToWriter(t)
    \/ \E t \in Threads : WritelnFlush(t)

Spec == Init /\ [][Next]_vars

\* ------------------------------------------------ the counter on its own
\* Values of next_id the counter specification starts from: the new writer's,
\* and values a long-lived writer reaches, around the limb carry and the wrap.
StartIds ==
    {ClientWriter_new} \cup
    { << h, l >> : h \in {0, 1, Limb - 1}, l \in {0, Limb - 3, Limb - 2, Limb - 1} } \cup
    { << Limb - 1, 1 >>, << 1, 1 >> }

InitAlloc ==
    /\ pending = << >>
    /\ nwritten = 0
    /\ closed = FALSE
    /\ timeoutCfg = FALSE
    /\ buf = << >>
    /\ next_id \in StartIds
    /\ wbuf = << >>
    /\ wire = << >>
    /\ wbroken = FALSE
    /\ worker_id = NoWorker
    /\ lockHolder = NoThread
    /\ poisoned = FALSE
    /\ pc = [t \in Threads |-> IF t = Main THEN "start" ELSE "idle"]
    /\ targs = [t \in Threads |-> NoCall]
    /\ tcmd = [t \in Threads |-> NoCmd]
    /\ tid = [t \in Threads |-> <<0, 0>>]
    /\ sendRes = [t \in Threads |-> NoSend]
    /\ csent = [t \in Threads |-> 0]
    /\ event = NullEv
    /\ connRes = NoRes
    /\ runRes = NoRes
    /\ first_job = NoJob
    /\ lastRead = NoRead
    /\ nLineReads = 0
    /\ nIdle = 0
    /\ nIgnored = 0
    /\ calls = << >>
    /\ nIdleRun = 0
    /\ nKaRun = 0
    /\ ids = << >>
    /\ id0 = next_id
    /\ text = << >>
    /\ decoded = << >>

\* ClientWriter::alloc_id
alloc_id ==
    /\ Len(ids) < MaxAllocs
    /\ next_id' = wrapping_add_1(next_id)
    /\ ids' = Append(ids, next_id)
    /\ UNCHANGED << envVars, readerVars, wbuf, wire, wbroken, lockVars, pc, sendVars,
                    loginVars, runVars, id0, decodeVars >>

SpecAlloc == InitAlloc /\ [][alloc_id]_vars

\* ------------------------------------------------------ decoding a target
\* The session's variables where no connection is open.
NoSession ==
    /\ pending = << >>
    /\ nwritten = 0
    /\ closed = FALSE
    /\ timeoutCfg = FALSE
    /\ buf = << >>
    /\ next_id = ClientWriter_new
    /\ wbuf = << >>
    /\ wire = << >>
    /\ wbroken = FALSE
    /\ worker_id = NoWorker
    /\ lockHolder = NoThread
    /\ poisoned = FALSE
    /\ pc = [t \in Threads |-> IF t = Main THEN "start" ELSE "idle"]
    /\ targs = [t \in Threads |-> NoCall]
    /\ tcmd = [t \in Threads |-> NoCmd]
    /\ tid = [t \in Threads |-> <<0, 0>>]
    /\ sendRes = [t \in Threads |-> NoSend]
    /\ csent = [t \in Threads |-> 0]
    /\ event = NullEv
    /\ connRes = NoRes
    /\ runRes = NoRes
    /\ first_job = NoJob
    /\ lastRead = NoRead
    /\ nLineReads = 0
    /\ nIdle = 0
    /\ nIgnored = 0
    /\ calls = << >>
    /\ nIdleRun = 0
    /\ nKaRun = 0
    /\ ids = << >>
    /\ id0 = ClientWriter_new

\* Bytes of a u64.
U64Bytes == 8

\* A u64 is four 16-bit limbs, the least significant first.
Zero64 == << 0, 0, 0, 0 >>

\* The hex digits and their values.
HexVal(c) ==
    CASE c = "0" -> 0 [] c = "1" -> 1 [] c = "2" -> 2 [] c = "3" -> 3
      [] c = "4" -> 4 [] c = "5" -> 5 [] c = "6" -> 6 [] c = "7" -> 7
      [] c = "8" -> 8 [] c = "9" -> 9 [] c = "a" -> 10 [] c = "b" -> 11
      [] c = "c" -> 12 [] c = "d" -> 13 [] c = "e" -> 14 [] c = "f" -> 15

\* Byte i (from 1) of a hex string: two digits, the high one first.
HexByte(s, i) == 16 * HexVal(s[2 * i - 1]) + HexVal(s[2 * i])

\* The little-endian integer of the first n bytes of the hex string s.
RECURSIVE le_bytes_to_int(_, _)
le_bytes_to_int(s, n) ==
    IF n = 0 THEN Zero64
    ELSE LET v == le_bytes_to_int(s, n - 1)
             j == ((n - 1) \div 2) + 1
             w == IF (n - 1) % 2 = 0 THEN 1 ELSE 256
         IN [v EXCEPT ![j] = @ + HexByte(s, n) * w]

\* hexbytes::hex64le_to_int on a string of whole bytes that fit a u64: the
\* value and the number of hex characters.
hex64le_to_int(s) == [val |-> le_bytes_to_int(s, Len(s) \div 2), hexlen |-> Len(s)]

\* u64 << 0x20
shl_0x20(v) == << 0, 0, v[1], v[2] >>

\* Bitwise or of two limbs, and of two u64.
RECURSIVE BitOr(_, _)
BitOr(a, b) ==
    IF a = 0 THEN b
    ELSE IF b = 0 THEN a
    ELSE (IF a % 2 = 1 \/ b % 2 = 1 THEN 1 ELSE 0) + 2 * BitOr(a \div 2, b \div 2)

or64(a, b) == [i \in 1 .. 4 |-> BitOr(a[i], b[i])]

\* deserialize_target with the compact form being less than 8 characters.
deserialize_target_Lt8(s) ==
    LET r == hex64le_to_int(s)
    IN IF r.hexlen < 8 THEN or64(r.val, shl_0x20(r.val)) ELSE r.val

\* deserialize_target
deserialize_target(s) ==
    LET r == hex64le_to_int(s)
    IN IF r.hexlen <= 8 THEN or64(r.val, shl_0x20(r.val)) ELSE r.val

\* The bytes a target is written with, and the targets of up to U64Bytes bytes.
HexPairs == { << "0", "0" >>, << "b", "7" >>, << "d", "1" >> }
Flat(f, n) == [i \in 1 .. 2 * n |-> f[(i + 1) \div 2][IF i % 2 = 1 THEN 1 ELSE 2]]
HexStrings == UNION { { Flat(f, n) : f \in [1 .. n -> HexPairs] } : n \in 0 .. U64Bytes }

InitTarget ==
    /\ NoSession
    /\ text \in HexStrings
    /\ decoded = << >>

\* A Job's target field is deserialized.
DecodeTarget ==
    /\ decoded = << >>
    /\ decoded' = deserialize_target(text)
    /\ UNCHANGED << envVars, readerVars, writerVars, lockVars, pc, sendVars, loginVars,
                    runVars, id0, text >>

SpecTarget == InitTarget /\ [][DecodeTarget]_vars

\* ----------------------------------------------------- decoding a message
\* The fields of a JSON object a server sends, by shape.  method: absent,
\* "job" or another string; params: absent, a Job, or something that is no
\* Job; id: absent, a u32, or something else; error: absent or null, an
\* ErrorReply, or something that is none; result: absent or null, or an object
\* that may hold a worker id ("id"), a "job" (a Job or not one) and a "status".
NoResult == [present |-> FALSE, wid |-> FALSE, job |-> "absent", status |-> FALSE]
ResultShapes ==
    {NoResult} \cup
    [present : {TRUE}, wid : BOOLEAN, job : {"absent", "job", "bad"}, status : BOOLEAN]
MsgShapes ==
    [method : {"absent", "job", "other"}, params : {"absent", "job", "bad"},
     id : {"absent", "u32", "other"}, error : {"absent", "error", "bad"},
     result : ResultShapes]

\* Option<PoolReply>, untagged: Job(Box<JobAssignment>) is tried first and
\* needs "id" and a "job" that is a Job (status is optional); then
\* Status {status}; fields a variant does not name are ignored.
PoolReply_deserialize(r) ==
    IF ~r.present THEN "none"
    ELSE IF r.wid /\ r.job = "job" THEN "job"
    ELSE IF r.status THEN "status"
    ELSE "fail"

\* PoolEvent, untagged: ClientCommand (tag "method", content "params") is
\* tried first, then PoolReply {id, error, result}, whose id is required and
\* whose error and result may be absent.  The event, or UnknownEv where no
\* variant matches.
PoolEvent_deserialize(m) ==
    IF m.method = "job" /\ m.params = "job" THEN JobEv(0)
    ELSE IF m.id = "u32" /\ m.error # "bad" /\ PoolReply_deserialize(m.result) # "fail"
         THEN [type |-> "reply", id |-> << 0, 0 >>, err |-> (m.error = "error"),
               res |-> PoolReply_deserialize(m.result), k |-> 0]
    ELSE UnknownEv(0)

Undecoded == [tag |-> "undecoded", ev |-> NullEv, err |-> "none"]

InitDecode ==
    /\ NoSession
    /\ text \in MsgShapes
    /\ decoded = Undecoded

\* read() decodes the line that holds the object.
DecodeMessage ==
    /\ decoded = Undecoded
    /\ decoded' = from_str(LineBytes(0), PoolEvent_deserialize(text))
    /\ UNCHANGED << envVars, readerVars, writerVars, lockVars, pc, sendVars, loginVars,
                    runVars, id0, text >>

SpecDecode == InitDecode /\ [][DecodeMessage]_vars




\* ================================================================= claims
Timeouts == {"WouldBlock", "TimedOut"}
SendPcs == {"lock", "alloc", "write", "flush"}

\* The step is a read() of the handshake, or of the run loop, that decoded an event.
LoginReads == pc[Main] = "login_read" /\ nLineReads' = nLineReads + 1 /\ lastRead'.res.tag = "Some"
RunReads == pc[Main] = "run_read" /\ nLineReads' = nLineReads + 1 /\ lastRead'.res.tag = "Some"

\* C1: read() maps every transport outcome to exactly one result: a timeout or
\* would-block to Ok(None); a read of zero bytes to Err(Disconnected); a read
\* of some bytes to an event or Err(MessageError); any other I/O failure to
\* Err(IoError); and no result arises from another outcome.
C1_ReadClassification ==
    lastRead.io # "none" =>
        /\ (lastRead.io \in Timeouts) <=> (lastRead.res = OkNone)
        /\ (lastRead.io = "Ok" /\ lastRead.n = 0) <=> (lastRead.res = Err("Disconnected"))
        /\ (lastRead.io = "Ok" /\ lastRead.n > 0)
              <=> (lastRead.res.tag = "Some" \/ lastRead.res = Err("MessageError"))
        /\ (lastRead.io = "Other") <=> (lastRead.res = Err("IoError"))

\* C2: the k-th read() that hands a newline-terminated line to the decoder
\* hands it exactly the bytes of the k-th line the server wrote.
C2_EachReadIsNextLine ==
    (lastRead.io = "Ok" /\ lastRead.n > 0 /\ lastRead.buf[Len(lastRead.buf)][2] = LineLen)
        => lastRead.buf = LineBytes(nLineReads)

\* C3: the bytes handed to the transport, and those still buffered behind
\* them, are JSON objects each followed by its line terminator; on a socket
\* that has not failed the bytes on the wire are whole messages.
IsFrameSeq(w) ==
    \A i \in 1 .. Len(w) : IF i % 2 = 1 THEN w[i].b = "json" ELSE w[i].b = "nl"

C3_NoInterleaving ==
    /\ IsFrameSeq(wire \o wbuf)
    /\ ~wbroken => Len(wire) % 2 = 0

\* A caller thread waits for the lock while the run loop is in the middle of
\* its keepalive, after a caller's message already went out.
C3_Witness ==
    /\ pc[Main] = "flush"
    /\ \E c \in Callers : pc[c] = "lock"
    /\ Len(wire) >= 2
    /\ ~wbroken

\* C4: the ids a writer allocates are consecutive 32-bit values: a new writer's
\* first id is 1, each id is the one before it plus 1, the id after 2^32 - 1
\* is 0, and no id is issued twice.
Succ32(a, b) ==
    \/ a[1] = b[1] /\ b[2] = a[2] + 1
    \/ a[2] = Limb - 1 /\ b[2] = 0 /\ b[1] = a[1] + 1
    \/ a = << Limb - 1, Limb - 1 >> /\ b = << 0, 0 >>

C4_SequentialIds ==
    /\ ids # << >> => ids[1] = id0
    /\ (ids # << >> /\ id0 = ClientWriter_new) => ids[1] = << 0, 1 >>
    /\ \A i \in 1 .. Len(ids) - 1 : Succ32(ids[i], ids[i + 1])
    /\ \A i \in 1 .. Len(ids) : \A j \in 1 .. Len(ids) : i # j => ids[i] # ids[j]
    /\ \A i \in 1 .. Len(ids) : ids[i][1] \in 0 .. Limb - 1 /\ ids[i][2] \in 0 .. Limb - 1

\* The counter has passed 2^32 - 1 and gone on from 0.
C4_Witness ==
    \E i \in 1 .. Len(ids) - 2 :
        ids[i] = << Limb - 1, Limb - 1 >> /\ ids[i + 1] = << 0, 0 >> /\ ids[i + 2] = << 0, 1 >>

\* C5: in the handshake a Job notification leaves the handshake reading, with
\* nothing returned; a reply with no error and a Job assignment ends it with
\* Ok, the worker id and the Job being those of that reply.
C5_NotificationsIgnored ==
    [][ /\ (LoginReads /\ lastRead'.res.ev.type = "job")
            => /\ pc'[Main] = "login_read"
               /\ nIgnored' = nIgnored + 1
               /\ UNCHANGED << connRes, worker_id, first_job >>
        /\ (LoginReads /\ lastRead'.res.ev.type = "reply" /\ ~lastRead'.res.ev.err
               /\ lastRead'.res.ev.res = "job")
            => /\ connRes' = OkRes
               /\ pc'[Main] = "run_read"
               /\ worker_id' = WorkerOf(lastRead'.res.ev.k)
               /\ first_job' = JobOf(lastRead'.res.ev.k) ]_vars

\* C6: with a read timeout configured and a server that has written nothing
\* and has not closed, the handshake's read returns, and unless the transport
\* fails otherwise the handshake ends there with LoginTimedOut.
C6_LoginTimesOut ==
    [][ (pc[Main] = "login_read" /\ timeoutCfg /\ nwritten = 0 /\ ~closed)
          => /\ \E r \in read_line : r.io \in Timeouts
             /\ (pc'[Main] # "login_read" /\ lastRead'.io # "Other")
                  => /\ lastRead'.io \in Timeouts
                     /\ connRes' = ErrRes("LoginTimedOut", 0)
                     /\ pc'[Main] = "done"
             /\ pc'[Main] = "login_read" => UNCHANGED << connRes, lastRead, nIdle >> ]_vars

\* The handshake timed out on a silent server.
C6_Witness ==
    /\ connRes = ErrRes("LoginTimedOut", 0)
    /\ nwritten = 0
    /\ ~closed
    /\ pc[Main] = "done"

\* C7: in the handshake a reply whose error is present ends connect() with
\* Err(ErrorReply) carrying that error, whatever its result; no writer, job
\* or reader is returned.
C7_LoginErrorReplyFatal ==
    [][ (LoginReads /\ lastRead'.res.ev.type = "reply" /\ lastRead'.res.ev.err)
          => /\ connRes' = ErrRes("ErrorReply", ErrorOf(lastRead'.res.ev.k))
             /\ pc'[Main] = "done"
             /\ worker_id' = NoWorker
             /\ first_job' = NoJob ]_vars

\* The handshake failed on an error reply that also held a Job assignment.
C7_Witness ==
    /\ connRes.tag = "Err"
    /\ connRes.kind = "ErrorReply"
    /\ lastRead.res.tag = "Some"
    /\ lastRead.res.ev.err
    /\ lastRead.res.ev.res = "job"

\* C8: the run loop hands each event it reads to the match, which invokes
\* exactly the callback of the event's shape (none for a reply with neither
\* error nor result), after the callbacks of the earlier events, and reads on.
Callback(cb, e) == [cb |-> cb, k |-> e.k, id |-> e.id]

C8_Dispatch ==
    [][ /\ RunReads => (event' = lastRead'.res.ev /\ pc'[Main] = "dispatch" /\ calls' = calls)
        /\ (pc[Main] = "dispatch" /\ pc'[Main] # "dispatch")
            => /\ pc'[Main] = "run_read"
               /\ event.type \in {"job", "reply"}
               /\ event.type = "job" => calls' = Append(calls, Callback("job_command", event))
               /\ (event.type = "reply" /\ event.err)
                    => calls' = Append(calls, Callback("error_reply", event))
               /\ (event.type = "reply" /\ ~event.err /\ event.res = "status")
                    => calls' = Append(calls, Callback("status_reply", event))
               /\ (event.type = "reply" /\ ~event.err /\ event.res = "job")
                    => calls' = Append(calls, Callback("job_reply", event))
               /\ (event.type = "reply" /\ ~event.err /\ event.res = "none")
                    => calls' = calls
        /\ pc[Main] # "dispatch" => calls' = calls ]_vars

\* The run loop dispatched an error reply holding a Status result, then a
\* Job notification.
C8_Witness ==
    /\ Len(calls) = 2
    /\ calls[1].cb = "error_reply"
    /\ calls[2].cb = "job_command"
    /\ pc[Main] = "run_read"

\* C9: whenever the run loop is about to read or dispatch, it has sent one
\* keepalive per idle read; it is inside a keepalive send only after an idle
\* read not yet answered; and between an idle read and the end of its
\* keepalive no callback is invoked.
C9_Counts ==
    /\ pc[Main] \in {"run_read", "dispatch"} => nKaRun = nIdleRun
    /\ pc[Main] \in SendPcs => (nKaRun + 1 = nIdleRun /\ lastRead.res = OkNone)
    /\ pc[Main] = "dispatch" => lastRead.res.tag = "Some"

C9_KeepaliveOnIdle ==
    /\ []C9_Counts
    /\ [][ /\ (pc[Main] = "run_read" /\ pc'[Main] = "lock") => lastRead'.res = OkNone
           /\ (pc[Main] = "run_read" /\ pc'[Main] # "run_read" /\ lastRead'.res = OkNone)
                => (pc'[Main] = "lock" /\ calls' = calls /\ nIdleRun' = nIdleRun + 1)
           /\ pc[Main] \in SendPcs => calls' = calls
           /\ nKaRun' # nKaRun => (pc[Main] = "flush" /\ nKaRun' = nKaRun + 1) ]_vars

\* Two idle reads, each answered by a keepalive, and the loop reads again.
C9_Witness ==
    /\ pc[Main] = "run_read"
    /\ nIdleRun = 2
    /\ nKaRun = 2
    /\ ~wbroken

\* C10: a keepalive that fails to send ends run() with that failure as its
\* error result.
C10_KeepaliveFailureReturned ==
    (connRes = OkRes /\ sendRes[Main] = SendErr) => runRes = ErrRes("IoError", 0)

\* C11: run() never returns Ok; a read() of the run loop that returns an error
\* ends run() with that error at once; and from then on nothing is read, no
\* callback is invoked and no keepalive is sent by the run loop.
C11_Returned ==
    /\ runRes.tag # "Ok"
    /\ runRes.tag = "Err"
         => /\ pc[Main] = "done"
            /\ connRes = OkRes
            /\ lastRead.res.tag = "Err"
            /\ runRes = ErrRes(lastRead.res.err, 0)
            /\ runRes.kind \in {"Disconnected", "MessageError", "IoError"}
    /\ (pc[Main] = "done" /\ connRes = OkRes) => runRes.tag \in {"Err", "panic"}

C11_ReaderErrorEndsRun ==
    /\ []C11_Returned
    /\ [][ /\ (pc[Main] = "run_read" /\ lastRead'.res.tag = "Err")
                => /\ runRes' = ErrRes(lastRead'.res.err, 0)
                   /\ pc'[Main] = "done"
                   /\ calls' = calls
                   /\ nKaRun' = nKaRun
           /\ runRes.tag = "Err"
                => UNCHANGED << runRes, lastRead, nLineReads, nIdle, buf, calls, nKaRun,
                                nIdleRun, event >> ]_vars

\* run() returned the decode error of the third line, after a callback and a
\* keepalive.
C11_Witness ==
    /\ runRes = ErrRes("MessageError", 0)
    /\ Len(calls) = 1
    /\ nKaRun = 1
    /\ nLineReads = 3

\* C12: in the handshake a reply with no error and a Job assignment ends
\* connect() with Ok whatever its id, also an id that is not the one the login
\* send returned; connect() never ends otherwise on such a reply.
C12_IdNotVerified ==
    [][ (LoginReads /\ lastRead'.res.ev.type = "reply" /\ ~lastRead'.res.ev.err
            /\ lastRead'.res.ev.res = "job")
          => (connRes' = OkRes /\ pc'[Main] = "run_read") ]_vars

\* C13: a target of at most 8 hex characters decodes to the 64-bit value
\* whose low four bytes are the bytes of the text (missing ones zero) and
\* whose high four bytes repeat the low four; a longer target decodes to the
\* value whose bytes are the bytes of the text, unchanged.
TargetByte(t, i) == IF i % 2 = 0 THEN t[(i \div 2) + 1] % 256 ELSE t[(i \div 2) + 1] \div 256
TextByte(s, i) == IF i < Len(s) \div 2 THEN HexByte(s, i + 1) ELSE 0

C13_TargetExpanded ==
    decoded # << >> =>
        IF Len(text) <= 8
        THEN \A i \in 0 .. 3 : /\ TargetByte(decoded, i) = TextByte(text, i)
                               /\ TargetByte(decoded, i + 4) = TextByte(text, i)
        ELSE \A i \in 0 .. 7 : TargetByte(decoded, i) = TextByte(text, i)

\* "b7d10000", the target of the example login reply, decoded to
\* 0x0000d1b70000d1b7.
C13_Witness ==
    /\ text = << "b", "7", "d", "1", "0", "0", "0", "0" >>
    /\ decoded = << 13 * 4096 + 1 * 256 + 11 * 16 + 7, 0, 13 * 4096 + 1 * 256 + 11 * 16 + 7, 0 >>

\* C14: a decoded message is classified by the shape of its fields: method
\* "job" with a Job in params is a Job notification; otherwise, with an id and
\* a well-formed error, a result holding a worker id and a Job is a reply with
\* a Job assignment, with or without a status; a result holding a status and no
\* assignment is a Status reply; and a message of neither the notification nor
\* the reply shape is a decode error.
IsNotification(m) == m.method = "job" /\ m.params = "job"
IsReply(m) ==
    /\ m.id = "u32"
    /\ m.error \in {"absent", "error"}
    /\ \/ ~m.result.present
       \/ m.result.wid /\ m.result.job = "job"
       \/ m.result.status

C14_Classification ==
    decoded # Undecoded =>
        /\ IsNotification(text) => decoded = OkSome(JobEv(0))
        /\ (~IsNotification(text) /\ IsReply(text) /\ text.result.wid /\ text.result.job = "job")
              => (decoded.tag = "Some" /\ decoded.ev.type = "reply" /\ decoded.ev.res = "job")
        /\ (~IsNotification(text) /\ IsReply(text) /\ text.result.status /\ ~(text.result.wid /\ text.result.job = "job"))
              => (decoded.tag = "Some" /\ decoded.ev.type = "reply"
                    /\ decoded.ev.res = "status")
        /\ (~IsNotification(text) /\ ~IsReply(text)) => decoded = Err("MessageError")

\* C15: whatever the interleaving of the threads that send, the ids of the
\* messages written, in the order they are written, go up by exactly 1 (mod
\* 2^32) from one message to the next and none is written twice; a send that
\* returns Ok(id) has just put on the wire the message holding that id and the
\* sender's own command; and no two threads hold the same returned id.
Messages(w) == SelectSeq(w, LAMBDA x : x.b = "json")

C15_Ordered ==
    LET m == Messages(wire \o wbuf)
    IN /\ \A i \in 1 .. Len(m) - 1 : Succ32(m[i].id, m[i + 1].id)
       /\ \A i \in 1 .. Len(m) : \A j \in 1 .. Len(m) : i # j => m[i].id # m[j].id
       /\ \A t \in Threads : \A u \in Threads :
             (t # u /\ sendRes[t].tag = "Ok" /\ sendRes[u].tag = "Ok")
                => sendRes[t].id # sendRes[u].id

C15_WireIdsInOrder ==
    /\ []C15_Ordered
    /\ [][ /\ \A t \in Threads :
                (pc[t] = "flush" /\ pc'[t] # "flush" /\ sendRes'[t].tag = "Ok")
                   => /\ Len(wire') >= 2
                      /\ wire'[Len(wire') - 1] = Json(sendRes'[t].id, tcmd[t])
                      /\ wire'[Len(wire')] = Newline
           /\ (pc[Main] = "login_send" /\ sendRes'[Main].tag = "Ok")
                => wire' = << Json(sendRes'[Main].id, Login), Newline >> ]_vars

\* The login, then a caller's submit, then the run loop's keepalive reached
\* the wire, each sender holding the id of its own message.
C15_Witness ==
    /\ Len(wire) = 6
    /\ ~wbroken
    /\ wire[3].cmd.method = "submit"
    /\ wire[5].cmd.method = "keepalived"
    /\ \E c \in Callers : sendRes[c] = SendOk(wire[3].id)
    /\ sendRes[Main] = SendOk(wire[5].id)

\* C16: in the handshake an event of none of the three handled shapes (a
\* reply without error whose result is a Status or is absent) ends connect()
\* with LoginUnexpectedReply, and nothing else does; a read that times out,
\* also after ignored notifications, ends it with LoginTimedOut.
C16_LoginOtherShapes ==
    [][ /\ (LoginReads /\ lastRead'.res.ev.type = "reply" /\ ~lastRead'.res.ev.err
              /\ lastRead'.res.ev.res \in {"status", "none"})
             => /\ connRes' = ErrRes("LoginUnexpectedReply", 0)
                /\ pc'[Main] = "done"
                /\ worker_id' = NoWorker
                /\ first_job' = NoJob
        /\ (connRes' # connRes /\ connRes'.kind = "LoginUnexpectedReply")
             => /\ LoginReads
                /\ lastRead'.res.ev.type = "reply"
                /\ ~lastRead'.res.ev.err
                /\ lastRead'.res.ev.res # "job"
        /\ (pc[Main] = "login_read" /\ nIdle' = nIdle + 1)
             => /\ lastRead'.io \in Timeouts
                /\ connRes' = ErrRes("LoginTimedOut", 0)
                /\ pc'[Main] = "done" ]_vars

\* After an ignored notification the handshake failed on a Status reply
\* that carried no error.
C16_Witness ==
    /\ connRes = ErrRes("LoginUnexpectedReply", 0)
    /\ nIgnored = 1
    /\ lastRead.res.tag = "Some"
    /\ lastRead.res.ev.res = "status"
    /\ ~lastRead.res.ev.err

\* C17: in the run loop a reply whose error is present is handed to
\* error_reply with its id and error, run() does not return, and the loop
\* reads again; run() never ends with ErrorReply, which only connect() does.
C17_RunNeverErrorReply == runRes.kind # "ErrorReply"

C17_ErrorReplyIsData ==
    /\ []C17_RunNeverErrorReply
    /\ [][ (pc[Main] = "dispatch" /\ pc'[Main] # "dispatch" /\ event.type = "reply"
              /\ event.err)
             => /\ calls' = Append(calls, Callback("error_reply", event))
                /\ pc'[Main] = "run_read"
                /\ runRes' = NoRes
                /\ connRes' = OkRes ]_vars

\* After an error reply went to error_reply the loop read on and dispatched
\* a Status reply.
C17_Witness ==
    /\ Len(calls) = 2
    /\ calls[1].cb = "error_reply"
    /\ calls[2].cb = "status_reply"
    /\ runRes = NoRes
    /\ pc[Main] = "run_read"

\* C18: every keepalive and submit written carries the worker id of the
\* writer, which is set once, by the login reply that ended the handshake with
\* Ok, and never changes, whatever the run loop receives later; the command
\* of a submit call holds the job id of the job given, the nonce and the result
\* given, and the job's algo, or "" for a job without algo.
C18_Commands ==
    /\ \A i \in 1 .. Len(wire \o wbuf) :
          LET x == (wire \o wbuf)[i]
          IN (x.b = "json" /\ x.cmd.method \in {"keepalived", "submit"})
                => (x.cmd.wid = worker_id /\ worker_id # NoWorker /\ connRes = OkRes)
    /\ \A t \in Threads :
          pc[t] \in {"write", "flush"} =>
             IF t # Main /\ targs[t].op = "submit"
             THEN /\ tcmd[t].method = "submit"
                  /\ tcmd[t].wid = worker_id
                  /\ tcmd[t].job_id = targs[t].job.job_id
                  /\ tcmd[t].nonce = targs[t].nonce
                  /\ tcmd[t].result = targs[t].result
                  /\ tcmd[t].algo = (IF targs[t].job.algo = << >> THEN ""
                                     ELSE targs[t].job.algo[1])
             ELSE /\ tcmd[t].method = "keepalived"
                  /\ tcmd[t].wid = worker_id

C18_WorkerIdOfLogin ==
    /\ []C18_Commands
    /\ [][ /\ worker_id' # worker_id
                => /\ LoginReads
                   /\ lastRead'.res.ev.type = "reply"
                   /\ lastRead'.res.ev.res = "job"
                   /\ connRes' = OkRes
                   /\ worker_id = NoWorker
                   /\ worker_id' = WorkerOf(lastRead'.res.ev.k)
           /\ \A t \in Threads :
                (pc[t] = "write" /\ pc'[t] = "flush")
                   => wbuf' = Append(wbuf, Json(tid[t], tcmd[t])) ]_vars

\* Logged in by the second line, whose job has no algo, the client received a
\* Job assignment with another worker id on the third; the job_reply callback
\* submitted the first job and the message on the wire holds the worker id of
\* the login and the empty algo.
C18_Witness ==
    /\ worker_id = WorkerOf(2)
    /\ pc[Main] = "dispatch"
    /\ event.type = "reply" /\ event.res = "job" /\ ~event.err /\ event.k = 3
    /\ sendRes[Handler].tag = "Ok"
    /\ Len(wire) = 4
    /\ wire[3].cmd = [method |-> "submit", wid |-> WorkerOf(2), job_id |-> 2, nonce |-> 2,
                      result |-> 3, algo |-> ""]

\* C19: one counter serves the whole connection.  The login is the first
\* send and holds id 1; the i-th send attempt, of the login, of the run loop,
\* of a caller or of a callback, takes id i, whether or not it then fails, so
\* the first command after the login holds id 2 and no id is taken twice.
RECURSIVE SumOver(_, _)
SumOver(f, S) ==
    IF S = {} THEN 0
    ELSE LET x == CHOOSE y \in S : TRUE IN f[x] + SumOver(f, S \ {x})

Attempts ==
    (IF sendRes[Main] = NoSend THEN 0 ELSE 1)
    + nKaRun + SumOver(csent, Threads \ {Main})
    + Cardinality({ t \in Threads : pc[t] \in {"write", "flush"} })

C19_Counter ==
    /\ Len(ids) = Attempts
    /\ \A i \in 1 .. Len(ids) : ids[i] = << 0, i >>
    /\ next_id = << 0, Len(ids) + 1 >>
    /\ \A t \in Threads : pc[t] \in {"write", "flush"} => tid[t] = ids[Len(ids)]
    /\ LET m == Messages(wire \o wbuf)
       IN /\ Len(m) >= 1 => m[1] = Json(<< 0, 1 >>, Login)
          /\ Len(m) >= 2 => (m[2].id = << 0, 2 >>
                               /\ m[2].cmd.method \in {"keepalived", "submit"})

C19_OneCounter ==
    /\ []C19_Counter
    /\ [][ /\ \A t \in Threads :
                (pc[t] = "flush" /\ pc'[t] # "flush")
                   => /\ sendRes'[t] \in {SendOk(tid[t]), SendErr}
                      /\ UNCHANGED << next_id, ids >>
           /\ next_id' # next_id => ids' = Append(ids, next_id) ]_vars

\* A caller's send took id 2 and failed; the run loop's next keepalive takes
\* id 3.
C19_Witness ==
    /\ \E c \in Callers : sendRes[c] = SendErr
    /\ pc[Main] = "write"
    /\ tid[Main] = << 0, 3 >>
    /\ ids = << << 0, 1 >>, << 0, 2 >>, << 0, 3 >> >>

\* C20: a thread holds the guard exactly while it is inside one send; the run
\* loop takes it only after an idle read and gives it up at the end of that
\* keepalive, so it holds none while it reads or while a callback runs; a
\* callback sends only while the run loop is in the match; and a thread that
\* waits for the lock either can take it or waits for a holder that is inside
\* a send and can take its next step.
InSend(t) == pc[t] \in {"alloc", "write", "flush"}

C20_Scope ==
    /\ \A t \in Threads : (lockHolder = t) <=> InSend(t)
    /\ pc[Main] \in {"login_read", "run_read", "dispatch", "done"} => lockHolder # Main
    /\ pc[Handler] \in SendPcs => pc[Main] = "dispatch"
    /\ \A t \in Threads :
          pc[t] = "lock" =>
             \/ ENABLED Lock(t)
             \/ /\ lockHolder \in Threads \ {t}
                /\ ENABLED (\/ AllocId(lockHolder)
                            \/ ToWriter(lockHolder)
                            \/ WritelnFlush(lockHolder))

C20_LockOnlyForKeepalive ==
    /\ []C20_Scope
    /\ [][ /\ (lockHolder # Main /\ lockHolder' = Main)
                => (pc[Main] = "lock" /\ lastRead.res = OkNone /\ nKaRun + 1 = nIdleRun)
           /\ (lockHolder = Main /\ lockHolder' # Main)
                => (pc[Main] = "flush" /\ nKaRun' = nKaRun + 1 /\ lockHolder' = NoThread)
           /\ (pc[Main] = "dispatch" /\ pc'[Main] = "run_read")
                => pc[Handler] \in {"idle", "done"} ]_vars

\* After the run loop sent a keepalive and read an event, the callback holds
\* the lock and is sending while the run loop waits in the match.
C20_Witness ==
    /\ pc[Main] = "dispatch"
    /\ lockHolder = Handler
    /\ pc[Handler] = "flush"
    /\ nKaRun = 1
    /\ ~poisoned

====
